---- MODULE Spec2Model ----
(***************************************************************************)
(* A model of yt-transcript.py: one run of the command-line tool.  The run *)
(* resolves a video identifier from its URL argument, creates the output   *)
(* directory, fetches the transcript, optionally writes it, and optionally *)
(* asks the completion service for a summary and writes that.              *)
(*                                                                         *)
(* The URL argument, the prompt and file names are sequences of            *)
(* one-character strings.  Transcripts, summaries, messages and file        *)
(* contents, which may be 100,000 characters and more, are texts: the       *)
(* string written as its sequence of runs, a run being a character and the  *)
(* number of times it is repeated, no two neighbouring runs with the same   *)
(* character.  An optional value (Python None or a value) is a sequence of  *)
(* length 0 or 1.                                                           *)
(***************************************************************************)
EXTENDS Integers, Sequences, FiniteSets, TLC

VARIABLES
    args,         \* argparse namespace: url, prompt, output_dir, model, no_transcript
    api_key,      \* os.environ.get("ANTHROPIC_API_KEY"): None or text
    pc,           \* position of the run in main()
    video_id,     \* main's video_id: None until extract_video_id returned
    transcript,   \* main's transcript: None until fetch_transcript returned
    summary,      \* main's summary: None until summarize returned
    sent,         \* the user message handed to client.messages.create, None before
    dirs,         \* the directories that exist
    fs,           \* the files that exist: path -> content
    log,          \* the run's side effects in order (mkdir, calls, writes, failures)
    stdout,       \* lines printed to standard output
    stderr,       \* lines printed to the error stream
    exit_status   \* None while running, then the process's exit status

vars == <<args, api_key, pc, video_id, transcript, summary, sent, dirs, fs, log,
          stdout, stderr, exit_status>>

-----------------------------------------------------------------------------
(* Bounds of the model *)

\* inputs of extract_video_id are built from at most this many pieces
MaxPieces == 4
\* short transcripts have at most this many characters
MaxShortLen == 2
\* long transcripts exceed the truncation limit by at most this many characters
MaxOver == 2

-----------------------------------------------------------------------------
(* Optional values and text *)

None == <<>>
Some(x) == <<x>>
Min(a, b) == IF a < b THEN a ELSE b

Lower == {"a","b","c","d","e","f","g","h","i","j","k","l","m",
          "n","o","p","q","r","s","t","u","v","w","x","y","z"}
Upper == {"A","B","C","D","E","F","G","H","I","J","K","L","M",
          "N","O","P","Q","R","S","T","U","V","W","X","Y","Z"}
Digit == {"0","1","2","3","4","5","6","7","8","9"}

\* the character class [a-zA-Z0-9_-] of the four regular expressions
IdChars == Lower \cup Upper \cup Digit \cup {"_", "-"}

\* the repetition count {11} of the four regular expressions
IdLen == 11

-----------------------------------------------------------------------------
(* extract_video_id *)

\* the literal alternatives of each pattern's non-capturing group, in order
patterns ==
    << << <<"v","=">>, <<"/","v","/">> >>,
       << <<"y","o","u","t","u",".","b","e","/">> >>,
       << <<"s","h","o","r","t","s","/">> >> >>

\* the literal lit occurs in s starting at position i
LiteralAt(s, i, lit) ==
    /\ i >= 1
    /\ i + Len(lit) - 1 <= Len(s)
    /\ SubSeq(s, i, i + Len(lit) - 1) = lit

\* ([a-zA-Z0-9_-]{11}) matches in s starting at position j
TokenAt(s, j) ==
    /\ j >= 1
    /\ j + IdLen - 1 <= Len(s)
    /\ \A k \in j..(j + IdLen - 1) : s[k] \in IdChars

\* alternative a of the pattern alts, then the token, match in s at position i
AltMatchesAt(alts, a, s, i) ==
    /\ LiteralAt(s, i, alts[a])
    /\ TokenAt(s, i + Len(alts[a]))

\* the pattern matches in s at position i
MatchesAt(alts, s, i) == \E a \in 1..Len(alts) : AltMatchesAt(alts, a, s, i)

\* re.search(pattern, url): None, or the match's group(1).  The match is the
\* leftmost one; at that position the first alternative that matches is taken.
re_search(alts, s) ==
    IF \E i \in 1..Len(s) : MatchesAt(alts, s, i)
    THEN LET i == CHOOSE i \in 1..Len(s) :
                    /\ MatchesAt(alts, s, i)
                    /\ \A j \in 1..(i - 1) : ~MatchesAt(alts, s, j)
             a == CHOOSE a \in 1..Len(alts) :
                    /\ AltMatchesAt(alts, a, s, i)
                    /\ \A b \in 1..(a - 1) : ~AltMatchesAt(alts, b, s, i)
             j == i + Len(alts[a])
         IN  Some(SubSeq(s, j, j + IdLen - 1))
    ELSE None

\* a faulty variant of re_fullmatch: re.match, which anchors the start only
re_match_prefix(s) == TokenAt(s, 1)

\* re.fullmatch(r"[a-zA-Z0-9_-]{11}", url)
re_fullmatch(s) == Len(s) = IdLen /\ \A k \in 1..Len(s) : s[k] \in IdChars

\* a faulty variant of FirstPattern: the patterns tried in reverse order
RECURSIVE LastPattern(_, _)
LastPattern(url, n) ==
    IF n > Len(patterns) THEN None
    ELSE LET m == re_search(patterns[Len(patterns) + 1 - n], url)
         IN  IF m # None THEN m ELSE LastPattern(url, n + 1)

\* the for loop over patterns from the n-th on: the group of the first pattern
\* that matches, None when the loop ends without a match
RECURSIVE FirstPattern(_, _)
FirstPattern(url, n) ==
    IF n > Len(patterns) THEN None
    ELSE LET m == re_search(patterns[n], url)
         IN  IF m # None THEN m ELSE FirstPattern(url, n + 1)

\* extract_video_id(url): the identifier, or the ValueError it raises
extract_video_id(url) ==
    LET m == FirstPattern(url, 1)
    IN  IF m # None THEN [ok |-> TRUE, id |-> m[1]]
        ELSE IF re_fullmatch(url) THEN [ok |-> TRUE, id |-> url]
        ELSE [ok |-> FALSE, error |-> "ValueError"]

-----------------------------------------------------------------------------
(* summarize: the message built for the completion service *)

\* the slice bound of transcript[:100_000]
TruncateLimit == 100000

\* c repeated n times
Run(c, n) == [ch |-> c, n |-> n]

\* the text of a sequence of characters
RECURSIVE Rle(_)
Rle(chars) ==
    IF chars = <<>> THEN <<>>
    ELSE LET rest == Rle(Tail(chars))
         IN  IF rest # <<>> /\ rest[1].ch = Head(chars)
             THEN <<Run(Head(chars), rest[1].n + 1)>> \o Tail(rest)
             ELSE <<Run(Head(chars), 1)>> \o rest

\* len(t): the number of characters of a text
RECURSIVE TextLen(_)
TextLen(t) == IF t = <<>> THEN 0 ELSE t[1].n + TextLen(Tail(t))

\* a + b: the concatenation of two texts
CatText(a, b) ==
    IF a = <<>> THEN b
    ELSE IF b = <<>> THEN a
    ELSE IF a[Len(a)].ch = b[1].ch
    THEN SubSeq(a, 1, Len(a) - 1) \o <<Run(b[1].ch, a[Len(a)].n + b[1].n)>> \o Tail(b)
    ELSE a \o b

\* t[:n] for n >= 0: the first n characters, all of t when it has fewer
RECURSIVE PySliceTo(_, _)
PySliceTo(t, n) ==
    IF t = <<>> \/ n <= 0 THEN <<>>
    ELSE IF t[1].n >= n THEN <<Run(t[1].ch, n)>>
    ELSE <<t[1]>> \o PySliceTo(Tail(t), n - t[1].n)

\* a faulty variant of Truncated: the slice bound off by one
TruncatedOffByOne(t) == PySliceTo(t, TruncateLimit - 1)

\* truncated = transcript[:100_000]
Truncated(t) == PySliceTo(t, TruncateLimit)

\* the literal parts of the two f-strings, each kept as one character of the message
FocusIntro ==
    "Here is a YouTube video transcript. The user has a specific request:\n\n\""
FocusOutro ==
    "\"\n\nAnswer their request thoroughly based on the transcript. Use headings and bullet points for readability.\n\nTranscript:\n"
GeneralIntro ==
    "Summarize this YouTube video transcript. Produce a clear, well-structured summary that captures all the key points, arguments, and conclusions. Use headings and bullet points for readability. The summary should be thorough enough that someone who hasn't watched the video understands the full content.\n\nTranscript:\n"

\* user_msg, for the prompt argument as passed (None or a string): "if prompt"
\* is false for None and for the empty string
user_msg(prompt, truncated) ==
    IF prompt # None /\ prompt[1] # <<>>
    THEN CatText(CatText(CatText(<<Run(FocusIntro, 1)>>, Rle(prompt[1])),
                         <<Run(FocusOutro, 1)>>),
                 truncated)
    ELSE CatText(<<Run(GeneralIntro, 1)>>, truncated)

\* the keyword arguments of client.messages.create
CreateRequest(model, content) ==
    [model |-> model, max_tokens |-> 4096, content |-> content]

-----------------------------------------------------------------------------
(* Files, output and the two services *)

\* a faulty variant of Falsy: "if api_key is None", which lets the empty string pass
IsNoneOnly(v) == v = None

\* "not api_key": the variable is unset (None) or set to the empty string
Falsy(v) == v = None \/ v = Some(<<>>)

TranscriptPrefix == <<"t","r","a","n","s","c","r","i","p","t","-">>
SummaryPrefix == <<"s","u","m","m","a","r","y","-">>
TxtSuffix == <<".","t","x","t">>

\* out_dir / f"transcript-{video_id}.txt"
transcript_path(out_dir, id) ==
    [dir |-> out_dir, name |-> TranscriptPrefix \o id \o TxtSuffix]

\* out_dir / f"summary-{video_id}.txt"
summary_path(out_dir, id) ==
    [dir |-> out_dir, name |-> SummaryPrefix \o id \o TxtSuffix]

\* path.write_text(content): the file is created or replaced as a whole
write_text(files, path, content) ==
    [q \in (DOMAIN files) \cup {path} |-> IF q = path THEN content ELSE files[q]]

\* the number of occurrences of event e in the sequence l
Count(l, e) == Cardinality({i \in 1..Len(l) : l[i] = e})

\* an uncaught exception: the interpreter prints it to the error stream and
\* the process ends with status 1
\* the process ends with status 1; events are the side effects that preceded it
Raise(exc, events) ==
    /\ stderr' = Append(stderr, [exc |-> exc])
    /\ log' = log \o events \o <<"fail">>
    /\ exit_status' = Some(1)
    /\ pc' = "failed"

-----------------------------------------------------------------------------
(* The inputs the model draws from *)

TokA == <<"d","Q","w","4","w","9","W","g","X","c","Q">>
TokB == <<"a","-","b","_","c","1","2","3","D","E","F">>
Ten == <<"0","1","2","3","4","5","6","7","8","9">>
Https == <<"h","t","t","p","s",":","/","/">>
YoutubeCom == Https \o <<"w","w","w",".","y","o","u","t","u","b","e",".","c","o","m","/">>
WatchUrl == YoutubeCom \o <<"w","a","t","c","h","?">>

\* the pieces an input of extract_video_id is put together from
Pieces ==
    { patterns[1][1], patterns[1][2], patterns[2][1], patterns[3][1],
      TokA, TokB, Ten, <<"x">>, <<"&">> }

\* all concatenations of at most n pieces
RECURSIVE Concats(_)
Concats(n) ==
    IF n = 0 THEN {<<>>}
    ELSE LET shorter == Concats(n - 1)
         IN  shorter \cup {c \o q : c \in shorter, q \in Pieces}

ExtractInputs == Concats(MaxPieces)

\* the URL arguments of the whole-run specification
Urls ==
    { Https \o patterns[2][1] \o TokA,
      WatchUrl \o patterns[1][1] \o TokB,
      YoutubeCom \o patterns[3][1] \o TokA \o <<"?">> \o patterns[1][1] \o TokB,
      TokA,
      WatchUrl }

RECURSIVE Texts(_)
Texts(n) ==
    IF n = 0 THEN {<<>>}
    ELSE LET shorter == Texts(n - 1)
         IN  shorter \cup {Append(t, c) : t \in shorter, c \in {"a", "b"}}

\* transcripts far below the truncation limit
ShortTranscripts == {Rle(t) : t \in Texts(MaxShortLen)}

\* transcripts around the truncation limit: n characters, the first k of them
\* "a" and the others "b"
LongText(n, k) == <<Run("a", k), Run("b", n - k)>>
LongTranscripts ==
    {LongText(n, k) : n \in (TruncateLimit - 1)..(TruncateLimit + MaxOver),
                      k \in {1, TruncateLimit - 2}}

Prompts == {None, Some(<<>>), Some(<<"k","e","y","?">>)}
Keys == {None, Some(<<>>), Some(<<"s","k">>)}
Summaries == {Rle(<<>>), Rle(<<"S","u","m","m">>)}
DefaultModel == "claude-haiku-4-5-20251001"

\* files left by an earlier run
Stale == Rle(<<"o","l","d">>)
NoFiles == [q \in {} |-> <<>>]
StaleFiles ==
    [q \in {transcript_path(".", TokA), summary_path(".", TokA)} |-> Stale]
InitialFiles == {NoFiles, StaleFiles}
InitialDirs == {"."}

\* what the transcript service may answer: a transcript, or an error
FetchOutcomes ==
    {[ok |-> TRUE, text |-> t] : t \in ShortTranscripts}
        \cup {[ok |-> FALSE, exc |-> "TranscriptServiceError"]}

\* what the completion service may answer: a text, or an error
CreateOutcomes ==
    {[ok |-> TRUE, text |-> t] : t \in Summaries}
        \cup {[ok |-> FALSE, exc |-> "CompletionServiceError"]}

-----------------------------------------------------------------------------
(* The run: main() *)

\* the namespaces parse_args can return
Namespaces(urls, prompts, out_dirs, flags) ==
    [url : urls, prompt : prompts, output_dir : out_dirs,
     model : {DefaultModel}, no_transcript : flags]

\* the state after parse_args, before line 136
InitRun(namespaces, keys, files) ==
    /\ args \in namespaces
    /\ api_key \in keys
    /\ pc = "start"
    /\ video_id = None
    /\ transcript = None
    /\ summary = None
    /\ sent = None
    /\ dirs = InitialDirs
    /\ fs \in files
    /\ log = <<>>
    /\ stdout = <<>>
    /\ stderr = <<>>
    /\ exit_status = None

Init == InitRun(Namespaces(Urls, Prompts, {".", "out"}, BOOLEAN), Keys, InitialFiles)

\* video_id = extract_video_id(args.url)
ExtractVideoId ==
    /\ pc = "start"
    /\ LET r == extract_video_id(args.url)
       IN  IF r.ok
           THEN /\ video_id' = Some(r.id)
                /\ pc' = "mkdir"
                /\ UNCHANGED <<stderr, log, exit_status>>
           ELSE /\ Raise(r.error, <<>>)
                /\ UNCHANGED video_id
    /\ UNCHANGED <<args, api_key, transcript, summary, sent, dirs, fs, stdout>>

\* out_dir = Path(args.output_dir); out_dir.mkdir(parents=True, exist_ok=True)
MakeOutDir ==
    /\ pc = "mkdir"
    /\ dirs' = dirs \cup {args.output_dir}
    /\ log' = Append(log, "mkdir")
    /\ pc' = "fetch"
    /\ UNCHANGED <<args, api_key, video_id, transcript, summary, sent, fs,
                   stdout, stderr, exit_status>>

\* a faulty variant of FetchTranscript: a failed fetch is tried once more
FetchTranscriptRetry ==
    /\ pc = "fetch"
    /\ stdout' = Append(stdout, [line |-> "Fetching transcript for video", id |-> video_id[1]])
    /\ \E r \in FetchOutcomes :
          IF r.ok
          THEN /\ transcript' = Some(r.text)
               /\ log' = Append(log, "fetch")
               /\ pc' = "save_transcript"
               /\ UNCHANGED <<stderr, exit_status>>
          ELSE IF Count(log, "fetch") = 0
          THEN /\ log' = Append(log, "fetch")
               /\ UNCHANGED <<transcript, pc, stderr, exit_status>>
          ELSE /\ Raise(r.exc, <<"fetch">>)
               /\ UNCHANGED transcript
    /\ UNCHANGED <<args, api_key, video_id, summary, sent, dirs, fs>>

\* print("Fetching transcript ..."); transcript = fetch_transcript(video_id)
FetchTranscript ==
    /\ pc = "fetch"
    /\ stdout' = Append(stdout, [line |-> "Fetching transcript for video", id |-> video_id[1]])
    /\ \E r \in FetchOutcomes :
          IF r.ok
          THEN /\ transcript' = Some(r.text)
               /\ log' = Append(log, "fetch")
               /\ pc' = "save_transcript"
               /\ UNCHANGED <<stderr, exit_status>>
          ELSE /\ Raise(r.exc, <<"fetch">>)
               /\ UNCHANGED transcript
    /\ UNCHANGED <<args, api_key, video_id, summary, sent, dirs, fs>>

\* a faulty variant of SaveTranscript: --no-transcript is ignored
SaveTranscriptAlways ==
    /\ pc = "save_transcript"
    /\ LET path == transcript_path(args.output_dir, video_id[1])
       IN  /\ fs' = write_text(fs, path, transcript[1])
           /\ log' = Append(log, "write_transcript")
           /\ stdout' = Append(stdout, [line |-> "Transcript saved", path |-> path,
                                         chars |-> TextLen(transcript[1])])
    /\ pc' = "check_prompt"
    /\ UNCHANGED <<args, api_key, video_id, transcript, summary, sent, dirs,
                   stderr, exit_status>>

\* a faulty variant of SaveTranscript: with a prompt, the transcript is not
\* written before the summarizer runs
SaveTranscriptUnlessPrompt ==
    /\ pc = "save_transcript"
    /\ IF ~args.no_transcript /\ args.prompt = None
       THEN LET path == transcript_path(args.output_dir, video_id[1])
            IN  /\ fs' = write_text(fs, path, transcript[1])
                /\ log' = Append(log, "write_transcript")
                /\ stdout' = Append(stdout, [line |-> "Transcript saved", path |-> path,
                                              chars |-> TextLen(transcript[1])])
       ELSE UNCHANGED <<fs, log, stdout>>
    /\ pc' = "check_prompt"
    /\ UNCHANGED <<args, api_key, video_id, transcript, summary, sent, dirs,
                   stderr, exit_status>>

\* if not args.no_transcript: write transcript-<id>.txt and report it
SaveTranscript ==
    /\ pc = "save_transcript"
    /\ IF ~args.no_transcript
       THEN LET path == transcript_path(args.output_dir, video_id[1])
            IN  /\ fs' = write_text(fs, path, transcript[1])
                /\ log' = Append(log, "write_transcript")
                /\ stdout' = Append(stdout, [line |-> "Transcript saved", path |-> path,
                                              chars |-> TextLen(transcript[1])])
       ELSE UNCHANGED <<fs, log, stdout>>
    /\ pc' = "check_prompt"
    /\ UNCHANGED <<args, api_key, video_id, transcript, summary, sent, dirs,
                   stderr, exit_status>>

\* a faulty variant of CheckPrompt: the summarizer runs whether or not a
\* prompt was given
CheckPromptAlways ==
    /\ pc = "check_prompt"
    /\ stdout' = Append(stdout, [line |-> "Summarizing with", model |-> args.model])
    /\ pc' = "summarize"
    /\ UNCHANGED exit_status
    /\ UNCHANGED <<args, api_key, video_id, transcript, summary, sent, dirs, fs,
                   log, stderr>>

\* if args.prompt is not None: print("Summarizing ..."), enter summarize;
\* otherwise main returns and the process ends with status 0
CheckPrompt ==
    /\ pc = "check_prompt"
    /\ IF args.prompt # None
       THEN /\ stdout' = Append(stdout, [line |-> "Summarizing with", model |-> args.model])
            /\ pc' = "summarize"
            /\ UNCHANGED exit_status
       ELSE /\ pc' = "done"
            /\ exit_status' = Some(0)
            /\ UNCHANGED stdout
    /\ UNCHANGED <<args, api_key, video_id, transcript, summary, sent, dirs, fs,
                   log, stderr>>

\* a faulty variant of SummarizeCredential: the credential is not looked at
SummarizeNoCredentialCheck ==
    /\ pc = "summarize"
    /\ pc' = "create"
    /\ UNCHANGED <<stderr, log, exit_status>>
    /\ UNCHANGED <<args, api_key, video_id, transcript, summary, sent, dirs, fs,
                   stdout>>

\* summarize, to the credential check: without a credential two lines go to
\* the error stream and sys.exit(1) ends the process
SummarizeCredential ==
    /\ pc = "summarize"
    /\ IF Falsy(api_key)
       THEN /\ stderr' = stderr \o
                 << [line |-> "Error: ANTHROPIC_API_KEY environment variable not set."],
                    [line |-> "Set it with: export ANTHROPIC_API_KEY='sk-ant-...'"] >>
            /\ log' = Append(log, "fail")
            /\ exit_status' = Some(1)
            /\ pc' = "failed"
       ELSE /\ pc' = "create"
            /\ UNCHANGED <<stderr, log, exit_status>>
    /\ UNCHANGED <<args, api_key, video_id, transcript, summary, sent, dirs, fs,
                   stdout>>

\* a faulty variant of SummarizeCreate: an error of the completion service is
\* swallowed and an empty summary returned
SummarizeCreateSwallow ==
    /\ pc = "create"
    /\ sent' = Some(CreateRequest(args.model,
                                  user_msg(args.prompt, Truncated(transcript[1]))))
    /\ \E r \in CreateOutcomes :
          IF r.ok
          THEN /\ summary' = Some(r.text)
               /\ log' = Append(log, "complete")
               /\ pc' = "save_summary"
               /\ UNCHANGED <<stderr, exit_status>>
          ELSE /\ summary' = Some(Rle(<<>>))
               /\ stderr' = Append(stderr, [exc |-> r.exc])
               /\ log' = log \o <<"complete", "fail">>
               /\ pc' = "save_summary"
               /\ UNCHANGED exit_status
    /\ UNCHANGED <<args, api_key, video_id, transcript, dirs, fs, stdout>>

\* summarize, from the client's construction on: the transcript is truncated,
\* the message built and sent; the answer's text is returned
SummarizeCreate ==
    /\ pc = "create"
    /\ sent' = Some(CreateRequest(args.model,
                                  user_msg(args.prompt, Truncated(transcript[1]))))
    /\ \E r \in CreateOutcomes :
          IF r.ok
          THEN /\ summary' = Some(r.text)
               /\ log' = Append(log, "complete")
               /\ pc' = "save_summary"
               /\ UNCHANGED <<stderr, exit_status>>
          ELSE /\ Raise(r.exc, <<"complete">>)
               /\ UNCHANGED summary
    /\ UNCHANGED <<args, api_key, video_id, transcript, dirs, fs, stdout>>

\* write summary-<id>.txt and report it; main returns, status 0
SaveSummary ==
    /\ pc = "save_summary"
    /\ LET path == summary_path(args.output_dir, video_id[1])
       IN  /\ fs' = write_text(fs, path, summary[1])
           /\ log' = Append(log, "write_summary")
           /\ stdout' = Append(stdout, [line |-> "Summary saved", path |-> path,
                                         chars |-> TextLen(summary[1])])
    /\ pc' = "done"
    /\ exit_status' = Some(0)
    /\ UNCHANGED <<args, api_key, video_id, transcript, summary, sent, dirs, stderr>>

Next ==
    \/ ExtractVideoId
    \/ MakeOutDir
    \/ FetchTranscript
    \/ SaveTranscript
    \/ CheckPrompt
    \/ SummarizeCredential
    \/ SummarizeCreate
    \/ SaveSummary

\* one run of the tool, from parse_args to exit
Spec == Init /\ [][Next]_vars

\* extract_video_id alone, over the inputs built from Pieces
InitExtract ==
    InitRun(Namespaces(ExtractInputs, {None}, {"."}, {FALSE}), {None}, {NoFiles})
NextExtract == ExtractVideoId
SpecExtract == InitExtract /\ [][NextExtract]_vars

\* summarize alone: the run of "--no-transcript -p PROMPT" at the call of
\* summarize, the fetch having returned a transcript of any of the lengths modelled
InitSummarize ==
    /\ args \in Namespaces({TokA}, Prompts \ {None}, {"."}, {TRUE})
    /\ api_key \in Keys
    /\ pc = "summarize"
    /\ video_id = Some(TokA)
    /\ transcript \in {Some(t) : t \in ShortTranscripts \cup LongTranscripts}
    /\ summary = None
    /\ sent = None
    /\ dirs = InitialDirs
    /\ fs = NoFiles
    /\ log = <<"mkdir", "fetch">>
    /\ stdout = << [line |-> "Fetching transcript for video", id |-> TokA],
                   [line |-> "Summarizing with", model |-> args.model] >>
    /\ stderr = <<>>
    /\ exit_status = None
NextSummarize == SummarizeCredential \/ SummarizeCreate
SpecSummarize == InitSummarize /\ [][NextSummarize]_vars

-----------------------------------------------------------------------------
(* Vocabulary of the properties *)

\* the stage of the orchestrator's state machine the run is in
Stage ==
    CASE pc = "start" -> "Start"
      [] pc \in {"mkdir", "fetch"} -> "IDResolved"
      [] pc \in {"save_transcript", "check_prompt", "summarize", "create"} ->
            "TranscriptFetched"
      [] pc = "save_summary" -> "SummaryProduced"
      [] pc = "done" -> "Done"
      [] pc = "failed" -> "Failed"

\* the stages a step may lead to from each stage, the stage itself aside
StageSuccessors(st) ==
    CASE st = "Start" -> {"IDResolved", "Failed"}
      [] st = "IDResolved" -> {"TranscriptFetched", "Failed"}
      [] st = "TranscriptFetched" -> {"SummaryProduced", "Done", "Failed"}
      [] st = "SummaryProduced" -> {"Done", "Failed"}
      [] OTHER -> {}

SummarizationRequested == args.prompt # None
CredentialAbsent == api_key = None \/ api_key = Some(<<>>)

\* positions of event e in the log
Positions(e) == {i \in 1..Len(log) : log[i] = e}

\* the error stream shows exception exc
Raised(exc) == \E i \in 1..Len(stderr) : stderr[i] = [exc |-> exc]

\* the error stream shows the missing-credential message
MissingCredentialReported ==
    \E i \in 1..Len(stderr) :
        stderr[i] = [line |-> "Error: ANTHROPIC_API_KEY environment variable not set."]

\* the files of fs whose name starts with the given prefix
FilesNamed(prefix) ==
    {q \in DOMAIN fs : Len(q.name) >= Len(prefix) /\ SubSeq(q.name, 1, Len(prefix)) = prefix}

\* every file with that prefix is one an earlier run left, untouched
OnlyStale(prefix) ==
    \A q \in FilesNamed(prefix) : q \in DOMAIN StaleFiles /\ fs[q] = Stale

\* a marker of pattern p, at position i of the URL argument, is followed by
\* 11 characters of the identifier alphabet
MarkerWithToken(p, i) ==
    \E a \in 1..Len(patterns[p]) :
        LET lit == patterns[p][a]
        IN  /\ i + Len(lit) + IdLen - 1 <= Len(args.url)
            /\ SubSeq(args.url, i, i + Len(lit) - 1) = lit
            /\ \A k \in (i + Len(lit))..(i + Len(lit) + IdLen - 1) : args.url[k] \in IdChars

\* the 11 characters that follow the marker of pattern p at position i
TokenAfter(p, i) ==
    LET a == CHOOSE a \in 1..Len(patterns[p]) :
                 /\ i + Len(patterns[p][a]) - 1 <= Len(args.url)
                 /\ SubSeq(args.url, i, i + Len(patterns[p][a]) - 1) = patterns[p][a]
        j == i + Len(patterns[p][a])
    IN  SubSeq(args.url, j, j + IdLen - 1)

\* the (pattern, position) pairs at which the URL argument shows a recognized shape
Occurrences ==
    {o \in (1..Len(patterns)) \X (1..Len(args.url)) : MarkerWithToken(o[1], o[2])}

\* the part of a message that follows its "Transcript:\n" label
TranscriptPortion(content) ==
    LET i == CHOOSE i \in 1..Len(content) : content[i].ch \in {FocusOutro, GeneralIntro}
    IN  SubSeq(content, i + 1, Len(content))

\* the i-th character of a text, counted from 1
RECURSIVE CharAt(_, _)
CharAt(t, i) == IF i <= t[1].n THEN t[1].ch ELSE CharAt(Tail(t), i - t[1].n)

-----------------------------------------------------------------------------
(* Properties of the whole run, checked under Spec *)

\* C1: when summarization is requested (the prompt flag is given, the empty
\* string included) and the credential variable is unset or empty, the process
\* never exits with status 0 and ends with status 1, the completion service is
\* never called, and no summary-<id>.txt is written.
C1_NoCredentialNoCompletion ==
    (SummarizationRequested /\ CredentialAbsent) =>
        /\ Positions("complete") = {}
        /\ sent = None
        /\ summary = None
        /\ Positions("write_summary") = {}
        /\ OnlyStale(SummaryPrefix)
        /\ exit_status # Some(0)
        /\ pc # "done"
        /\ (pc = "failed" <=> exit_status = Some(1))
        /\ (pc # "failed" => ENABLED Next)

\* C1 happens: the empty prompt with the variable set to the empty string
\* reaches the credential check and the run fails there.
C1_Witness ==
    /\ args.prompt = Some(<<>>)
    /\ api_key = Some(<<>>)
    /\ pc = "failed"
    /\ MissingCredentialReported
    /\ exit_status = Some(1)

\* C2 as stated: with summarization requested and the credential absent,
\* neither the transcript fetch nor the completion call ever occurs.
C2_NoNetworkCallAtAll ==
    (SummarizationRequested /\ CredentialAbsent) =>
        /\ Positions("fetch") = {}
        /\ Positions("complete") = {}

\* C2 as amended: with summarization requested and the credential absent, the
\* completion call never occurs; the credential is checked only after the
\* transcript fetch, so a run that fails at the credential check has performed
\* exactly one network call, the transcript fetch, which returned successfully.
C2_NoCompletionCallFetchFirst ==
    (SummarizationRequested /\ CredentialAbsent) =>
        /\ Positions("complete") = {}
        /\ sent = None
        /\ (pc \in {"summarize", "create", "save_summary"} \/ MissingCredentialReported) =>
              /\ Cardinality(Positions("fetch")) = 1
              /\ transcript # None
        /\ MissingCredentialReported =>
              /\ pc = "failed"
              /\ log[Len(log)] = "fail"
              /\ \A i \in Positions("fetch") : i < Len(log)
        /\ (pc = "failed" /\ transcript # None) => MissingCredentialReported

\* C2 happens: the variable is unset, the fetch succeeded, and the run failed
\* at the credential check.
C2_Witness ==
    /\ SummarizationRequested
    /\ api_key = None
    /\ MissingCredentialReported
    /\ log = <<"mkdir", "fetch", "write_transcript", "fail">>

\* C3: with --no-transcript no transcript-<id>.txt is ever written; and when a
\* prompt was given and extraction, fetch and completion call succeeded, the
\* run goes on to write summary-<id>.txt with the returned text and ends.
C3_NoTranscriptFile ==
    args.no_transcript =>
        /\ Positions("write_transcript") = {}
        /\ OnlyStale(TranscriptPrefix)
        /\ \A i \in 1..Len(stdout) : stdout[i].line # "Transcript saved"
        /\ (SummarizationRequested /\ summary # None) =>
              /\ pc \in {"save_summary", "done"}
              /\ ENABLED Next \/ pc = "done"
        /\ (SummarizationRequested /\ pc = "done") =>
              /\ summary # None
              /\ summary_path(args.output_dir, video_id[1]) \in DOMAIN fs
              /\ fs[summary_path(args.output_dir, video_id[1])] = summary[1]
              /\ exit_status = Some(0)

\* C3 happens: a summary-only run into a fresh directory ended with the summary
\* file as its only file.
C3_Witness ==
    /\ args.no_transcript
    /\ args.output_dir = "out"
    /\ pc = "done"
    /\ summary = Some(Rle(<<"S","u","m","m">>))
    /\ DOMAIN fs = {summary_path("out", video_id[1])}
    /\ fs[summary_path("out", video_id[1])] = <<Run("S", 1), Run("u", 1), Run("m", 2)>>

\* C4: without a prompt flag and without --no-transcript, once the identifier
\* is extracted and the transcript fetched the run ends with status 0 having
\* written transcript-<id>.txt with exactly the fetched text; the completion
\* service is never called and no summary file is written.
C4_TranscriptOnly ==
    (args.prompt = None /\ ~args.no_transcript) =>
        /\ Positions("complete") = {}
        /\ sent = None
        /\ Positions("write_summary") = {}
        /\ OnlyStale(SummaryPrefix)
        /\ transcript # None =>
              /\ pc \in {"save_transcript", "check_prompt", "done"}
              /\ ENABLED Next \/ pc = "done"
        /\ pc \in {"check_prompt", "done"} =>
              /\ transcript_path(args.output_dir, video_id[1]) \in DOMAIN fs
              /\ fs[transcript_path(args.output_dir, video_id[1])] = transcript[1]
              /\ stdout[Len(stdout)].chars = TextLen(transcript[1])
        /\ pc = "done" =>
              /\ exit_status = Some(0)
              /\ stderr = <<>>
              /\ log = <<"mkdir", "fetch", "write_transcript">>

\* C4 happens: a transcript-only run replaced the file an earlier run had left.
C4_Witness ==
    /\ args.prompt = None
    /\ ~args.no_transcript
    /\ pc = "done"
    /\ video_id = Some(TokA)
    /\ args.output_dir = "."
    /\ transcript = Some(Rle(<<"a","b">>))
    /\ DOMAIN fs = {transcript_path(".", TokA), summary_path(".", TokA)}
    /\ fs[transcript_path(".", TokA)] = Rle(<<"a","b">>)
    /\ fs[summary_path(".", TokA)] = Stale

\* the state part of C8: each service is called at most once; the fetch only
\* with the identifier resolved; the completion call only with a prompt flag
\* and only after the fetch returned a transcript.
C8_CallsInOrder ==
    /\ Cardinality(Positions("fetch")) <= 1
    /\ Cardinality(Positions("complete")) <= 1
    /\ Positions("fetch") # {} => video_id # None
    /\ Positions("complete") # {} =>
          /\ SummarizationRequested
          /\ transcript # None
          /\ \A c \in Positions("complete") :
                \E f \in Positions("fetch") : f < c /\ log[f + 1] # "fail"
    /\ sent # None <=> Positions("complete") # {}
    /\ pc = "start" => log = <<>>

\* the step part of C8: a step stays in its stage or moves to a later stage of
\* Start -> IDResolved -> TranscriptFetched -> [SummaryProduced] -> Done, or to
\* Failed; it adds at most one network call.
C8_StageStep ==
    /\ Stage' = Stage \/ Stage' \in StageSuccessors(Stage)
    /\ Cardinality(Positions("fetch")') + Cardinality(Positions("complete")')
          <= Cardinality(Positions("fetch")) + Cardinality(Positions("complete")) + 1

\* C8: at most two network calls, each service at most once and in fixed order
\* (fetch after the identifier is resolved; completion only with a prompt and
\* after a successful fetch); the run never returns to an earlier stage.
C8_SequentialRun == []C8_CallsInOrder /\ [][C8_StageStep]_vars

\* C8 happens: a full run made both calls, in order, and is done.
C8_Witness ==
    /\ pc = "done"
    /\ log = <<"mkdir", "fetch", "write_transcript", "complete", "write_summary">>

\* C9: a failing stage ends the run in Failed with status 1 and the error on
\* the error stream; nothing is retried and no directory creation, network
\* call or file write follows the failure.  A failed identifier extraction
\* leaves no directory created, no file written and no network call made.
C9_FailureIsTerminal ==
    /\ Positions("fail") # {} <=> pc = "failed"
    /\ stderr # <<>> <=> pc = "failed"
    /\ exit_status = Some(1) <=> pc = "failed"
    /\ pc = "failed" =>
          /\ Positions("fail") = {Len(log)}
          /\ ~ENABLED Next
    /\ \A e \in {"mkdir", "fetch", "complete", "write_transcript", "write_summary"} :
          Cardinality(Positions(e)) <= 1
    /\ Raised("ValueError") =>
          /\ log = <<"fail">>
          /\ video_id = None
          /\ dirs = InitialDirs
          /\ fs \in InitialFiles
    /\ Raised("TranscriptServiceError") =>
          /\ log = <<"mkdir", "fetch", "fail">>
          /\ fs \in InitialFiles
    /\ Raised("CompletionServiceError") =>
          /\ log[Len(log) - 1] = "complete"
          /\ summary = None
          /\ Positions("write_summary") = {}
    /\ MissingCredentialReported => Positions("complete") = {}

\* C9 happens: an unparseable argument with a fresh output directory named
\* failed at once.
C9_Witness ==
    /\ pc = "failed"
    /\ args.url = WatchUrl
    /\ args.output_dir = "out"
    /\ Raised("ValueError")
    /\ exit_status = Some(1)
    /\ dirs = {"."}

\* C10: without --no-transcript the transcript file holds the full fetched
\* transcript before the summarizer is entered; if the summarizer then fails
\* (missing credential or service error) the run ends Failed with that file
\* still in place and unchanged, and no summary file written.
C10_TranscriptKept ==
    ~args.no_transcript =>
        /\ (pc \in {"summarize", "create", "save_summary"}
              \/ MissingCredentialReported \/ Raised("CompletionServiceError")) =>
              /\ transcript_path(args.output_dir, video_id[1]) \in DOMAIN fs
              /\ fs[transcript_path(args.output_dir, video_id[1])] = transcript[1]
              /\ \E w \in Positions("write_transcript") :
                    \A c \in Positions("complete") \cup Positions("fail") : w < c
        /\ (MissingCredentialReported \/ Raised("CompletionServiceError")) =>
              /\ pc = "failed"
              /\ Positions("write_summary") = {}
              /\ OnlyStale(SummaryPrefix)

\* C10 happens: the completion service failed after the transcript had replaced
\* an earlier run's file; the earlier summary is untouched.
C10_Witness ==
    /\ ~args.no_transcript
    /\ Raised("CompletionServiceError")
    /\ pc = "failed"
    /\ video_id = Some(TokA)
    /\ args.output_dir = "."
    /\ DOMAIN fs = {transcript_path(".", TokA), summary_path(".", TokA)}
    /\ fs[transcript_path(".", TokA)] = Rle(<<"a","b">>)
    /\ fs[summary_path(".", TokA)] = Stale

-----------------------------------------------------------------------------
(* Properties of extract_video_id, checked under SpecExtract *)

\* C5 as stated: whenever a marker of a recognized shape in the input is
\* followed by an 11-character token, extract_video_id returns that token.
C5_EveryMarkedToken ==
    pc # "start" =>
        \A o \in Occurrences : video_id = Some(TokenAfter(o[1], o[2]))

\* C5 as amended: when the input shows a recognized shape, extract_video_id
\* returns the 11 characters after the leftmost such marker of the first shape,
\* in the order watch-style, short-link, shorts, that occurs in the input; so
\* an input all of whose marked tokens are the same token yields that token.
C5_FirstShapeLeftmostToken ==
    pc # "start" =>
        /\ Occurrences # {} => pc = "mkdir" /\ stderr = <<>>
        /\ \A o \in Occurrences :
              (\A other \in Occurrences :
                    o[1] < other[1] \/ (o[1] = other[1] /\ o[2] <= other[2]))
                 => video_id = Some(TokenAfter(o[1], o[2]))
        /\ \A o \in Occurrences :
              (\A other \in Occurrences :
                    TokenAfter(other[1], other[2]) = TokenAfter(o[1], o[2]))
                 => video_id = Some(TokenAfter(o[1], o[2]))

\* C5 happens: a short link that also carries a v= parameter resolved to the
\* token of the parameter.
C5_Witness ==
    /\ args.url = patterns[2][1] \o TokA \o patterns[1][1] \o TokB
    /\ video_id = Some(TokB)
    /\ pc = "mkdir"

\* C6: for an input showing no recognized shape, extract_video_id returns the
\* input unchanged when it is exactly 11 characters of the identifier
\* alphabet, and otherwise raises ValueError and yields no identifier.
C6_BareIdentifierOrError ==
    (pc # "start" /\ Occurrences = {}) =>
        IF Len(args.url) = IdLen /\ \A k \in 1..Len(args.url) : args.url[k] \in IdChars
        THEN /\ video_id = Some(args.url)
             /\ pc = "mkdir"
             /\ stderr = <<>>
             /\ exit_status = None
        ELSE /\ video_id = None
             /\ pc = "failed"
             /\ stderr = <<[exc |-> "ValueError"]>>
             /\ exit_status = Some(1)

\* C6 happens: a bare string of 12 identifier characters was rejected.
C6_Witness ==
    /\ args.url = TokA \o <<"x">>
    /\ pc = "failed"
    /\ Raised("ValueError")
    /\ video_id = None

-----------------------------------------------------------------------------
(* Properties of summarize, checked under SpecSummarize *)

\* C7: for every transcript and every prompt, empty or not, the transcript
\* part of the message sent to the completion service is exactly the first
\* 100,000 characters of the transcript; a transcript of at most 100,000
\* characters is sent whole.
C7_PrefixSent ==
    sent # None =>
        LET t == transcript[1]
            part == TranscriptPortion(sent[1].content)
        IN  /\ TextLen(part) = (IF TextLen(t) <= 100000 THEN TextLen(t) ELSE 100000)
            /\ \A i \in 1..TextLen(part) : CharAt(part, i) = CharAt(t, i)
            /\ TextLen(t) <= 100000 => part = t
            /\ sent[1].content[1].ch =
                  (IF args.prompt = Some(<<>>) THEN GeneralIntro ELSE FocusIntro)

\* C7 happens: a transcript of 100,001 characters was sent with a focus prompt,
\* cut to 100,000.
C7_Witness ==
    /\ sent # None
    /\ args.prompt # Some(<<>>)
    /\ TextLen(transcript[1]) = 100001
    /\ TextLen(TranscriptPortion(sent[1].content)) = 100000

====
